---- MODULE Spec2Model ----
(***************************************************************************)
(* The Arabic preprocessing pipeline of nlp_ar_prep.py as a state machine. *)
(* A string is a sequence of Unicode code points; one run of main() is a   *)
(* behaviour that starts after argument parsing and takes one step per     *)
(* pipeline stage.  The NLTK and standard-library calls main() makes       *)
(* (BigramCollocationFinder, BigramAssocMeasures.pmi, Counter.most_common, *)
(* re.findall / re.finditer) are modelled by what they compute.            *)
(***************************************************************************)
EXTENDS Integers, Sequences, FiniteSets, TLC

VARIABLES pc, args, fs, raw, convert_ta, norm, tokens, stop_set, no_stop,
          stems, freq, min_freq, scored, emails, dates, numbers

vars == << pc, args, fs, raw, convert_ta, norm, tokens, stop_set, no_stop,
           stems, freq, min_freq, scored, emails, dates, numbers >>

(***************************************************************************)
(* Code points the source names.                                           *)
(***************************************************************************)
ALEF == 1575
ALEF_MAKSURA == 1609
YA == 1610
WAW_HAMZA == 1572
WAW == 1608
YA_HAMZA == 1574
TA_MARBUTA == 1577
HA == 1607
TATWEEL == 1600
SPACE == 32
COMMA == 44
DOT == 46
HYPHEN == 45
SLASH == 47
AT == 64

\* the alef forms U+0625, U+0623, U+0622, U+0627
ALEF_FORMS == {1573, 1571, 1570, ALEF}

\* AR_DIACRITICS: U+0617..U+061A and U+064B..U+0652
AR_DIACRITICS == (1559..1562) \cup (1611..1618)

\* the class of AR_LETTERS: U+0621..U+063A and U+0641..U+064A
AR_LETTERS == (1569..1594) \cup (1601..1610)

\* what str.strip() removes (the white space of the inputs considered)
WHITESPACE == (9..13) \cup (28..32) \cup {133, 160}

IsSpace(c) == c \in WHITESPACE

\* \d of a str pattern: ASCII and Arabic-Indic decimal digits
DIGITS == (48..57) \cup (1632..1641) \cup (1776..1785)

IsDigit(c) == c \in DIGITS

ASCII_LETTERS == (65..90) \cup (97..122)

\* \w of a str pattern: alphanumerics and the underscore
IsWord(c) == c \in DIGITS \cup ASCII_LETTERS \cup {95} \cup (1568..1610)

(***************************************************************************)
(* re.sub over a whole string: delete, or replace, every match of a        *)
(* one-character class.                                                    *)
(***************************************************************************)
SubDelete(class, text) == SelectSeq(text, LAMBDA c : c \notin class)

SubChar(class, repl, text) ==
    [i \in 1..Len(text) |-> IF text[i] \in class THEN repl ELSE text[i]]

\* a faulty variant: hamza-on-ya is mapped to alef maksura, after the rule
\* that maps alef maksura away has already run
normalize_arabic_late_maksura(text, convert_ta_marbuta) ==
    LET t1 == SubDelete(AR_DIACRITICS, text)
        t2 == SubDelete({TATWEEL}, t1)
        t3 == SubChar(ALEF_FORMS, ALEF, t2)
        t4 == SubChar({ALEF_MAKSURA}, YA, t3)
        t5 == SubChar({WAW_HAMZA}, WAW, t4)
        t6 == SubChar({YA_HAMZA}, ALEF_MAKSURA, t5)
    IN  IF convert_ta_marbuta THEN SubChar({TA_MARBUTA}, HA, t6) ELSE t6

normalize_arabic(text, convert_ta_marbuta) ==
    LET t1 == SubDelete(AR_DIACRITICS, text)
        t2 == SubDelete({TATWEEL}, t1)
        t3 == SubChar(ALEF_FORMS, ALEF, t2)
        t4 == SubChar({ALEF_MAKSURA}, YA, t3)
        t5 == SubChar({WAW_HAMZA}, WAW, t4)
        t6 == SubChar({YA_HAMZA}, YA, t5)
    IN  IF convert_ta_marbuta THEN SubChar({TA_MARBUTA}, HA, t6) ELSE t6

(***************************************************************************)
(* re.findall(AR_LETTERS, text): the maximal runs of Arabic letters, left  *)
(* to right.                                                               *)
(***************************************************************************)
\* the first position >= i whose character is not in the class (past the
\* end if there is none)
RunEnd(class, text, i) ==
    IF \E j \in i..Len(text) : text[j] \notin class
    THEN CHOOSE j \in i..Len(text) :
            text[j] \notin class /\ \A k \in i..(j - 1) : text[k] \in class
    ELSE IF i > Len(text) THEN i ELSE Len(text) + 1

\* the first position >= i whose character is in the class (past the end if
\* there is none)
RunStart(class, text, i) ==
    IF \E j \in i..Len(text) : text[j] \in class
    THEN CHOOSE j \in i..Len(text) :
            text[j] \in class /\ \A k \in i..(j - 1) : text[k] \notin class
    ELSE IF i > Len(text) THEN i ELSE Len(text) + 1

RECURSIVE TokScan(_, _)
TokScan(text, i) ==
    LET s == RunStart(AR_LETTERS, text, i)
        e == RunEnd(AR_LETTERS, text, s)
    IN  IF s > Len(text) THEN << >>
        ELSE << SubSeq(text, s, e - 1) >> \o TokScan(text, e)

tokenize_ar(text) == TokScan(text, 1)

(***************************************************************************)
(* Stopwords.  AR_STOPWORDS_RAW is NLTK's Arabic stopword corpus; the      *)
(* model carries an excerpt of it: fi, ala, ila, an, min and sitta, which  *)
(* between them need the alef, alef-maksura and ta-marbuta rules.          *)
(***************************************************************************)
AR_STOPWORDS_RAW ==
    { << 1601, 1610 >>, << 1593, 1604, 1609 >>, << 1573, 1604, 1609 >>,
      << 1571, 1606 >>, << 1605, 1606 >>, << 1587, 1578, 1577 >> }

RECURSIVE Split(_, _)
\* str.split(sep) for a one-character separator
Split(text, sep) ==
    LET e == RunStart({sep}, text, 1)
    IN  IF e > Len(text) THEN << text >>
        ELSE << SubSeq(text, 1, e - 1) >> \o Split(SubSeq(text, e + 1, Len(text)), sep)

RECURSIVE LStrip(_)
LStrip(text) ==
    IF text # << >> /\ IsSpace(Head(text)) THEN LStrip(Tail(text)) ELSE text

RECURSIVE RStrip(_)
RStrip(text) ==
    IF text # << >> /\ IsSpace(text[Len(text)])
    THEN RStrip(SubSeq(text, 1, Len(text) - 1)) ELSE text

Strip(text) == RStrip(LStrip(text))

Range(seq) == {seq[i] : i \in 1..Len(seq)}

\* a faulty variant: the lexicon and the extra items are normalized with the
\* default policy whatever policy the run uses
build_stopwords_default_policy(convert_ta_marbuta, extra) ==
    LET base == {normalize_arabic(w, TRUE) : w \in AR_STOPWORDS_RAW}
        pieces == IF extra # << >> THEN Split(extra, COMMA) ELSE << >>
        extra_items == {Strip(w) : w \in {x \in Range(pieces) : Strip(x) # << >>}}
        extra_norm == {normalize_arabic(w, TRUE) : w \in extra_items}
    IN  base \cup extra_norm

build_stopwords(convert_ta_marbuta, extra) ==
    LET base == {normalize_arabic(w, convert_ta_marbuta) : w \in AR_STOPWORDS_RAW}
        pieces == IF extra # << >> THEN Split(extra, COMMA) ELSE << >>
        extra_items == {Strip(w) : w \in {x \in Range(pieces) : Strip(x) # << >>}}
        extra_norm == {normalize_arabic(w, convert_ta_marbuta) : w \in extra_items}
    IN  base \cup extra_norm

\* a faulty variant: a token of exactly min_len characters is dropped
remove_stopwords_longer_only(toks, stop, min_len) ==
    SelectSeq(toks, LAMBDA t : t \notin stop /\ Len(t) > min_len)

remove_stopwords(toks, stop, min_len) ==
    SelectSeq(toks, LAMBDA t : t \notin stop /\ Len(t) >= min_len)

(***************************************************************************)
(* Stemming.  The ISRI and Snowball stemmers are NLTK's; the pipeline only *)
(* maps them over the tokens, so a stem is the opaque pair (kind, token).  *)
(***************************************************************************)
make_stemmer(kind) == IF kind \in {"isri", "snowball"} THEN kind ELSE "None"

stem_tokens(toks, stemmer_obj) ==
    IF stemmer_obj = "None" THEN toks
    ELSE [i \in 1..Len(toks) |-> << stemmer_obj, toks[i] >>]

(***************************************************************************)
(* Counter(no_stop).most_common(n): the Counter keeps its keys in order of *)
(* first insertion, and most_common(n) is heapq.nlargest(n, items, count). *)
(***************************************************************************)
RECURSIVE Inc(_, _)
\* fd[key] += 1 on an insertion-ordered table of [item, count] rows
Inc(fd, key) ==
    IF fd = << >> THEN << [item |-> key, count |-> 1] >>
    ELSE IF Head(fd).item = key
         THEN << [item |-> key, count |-> Head(fd).count + 1] >> \o Tail(fd)
         ELSE << Head(fd) >> \o Inc(Tail(fd), key)

RECURSIVE Counter(_)
Counter(seq) ==
    IF seq = << >> THEN << >>
    ELSE Inc(Counter(SubSeq(seq, 1, Len(seq) - 1)), seq[Len(seq)])

\* the scores of the collocation finder and their order (see Collocations)
ScoreLess(s, t) ==
    s.num * t.den < t.num * s.den \/ (s.num * t.den = t.num * s.den /\ s.err < t.err)

ScoreEq(s, t) == s.num * t.den = t.num * s.den /\ s.err = t.err

RECURSIVE StrLess(_, _)
\* str < str: by code point, a proper prefix first
StrLess(a, b) ==
    IF b = << >> THEN FALSE
    ELSE IF a = << >> THEN TRUE
         ELSE IF Head(a) # Head(b) THEN Head(a) < Head(b)
              ELSE StrLess(Tail(a), Tail(b))

NgramLess(g, h) == StrLess(g[1], h[1]) \/ (g[1] = h[1] /\ StrLess(g[2], h[2]))

\* whether a sorts in front of b under a sort key:
\*   "count, reverse"   key=itemgetter(1), reverse=True   (most_common)
\*   "-score, ngram"    key=lambda t: (-t[1], t[0])        (score_ngrams)
\*   "-score"           key=lambda t: -t[1]
KeyBefore(key, a, b) ==
    CASE key = "count, reverse" -> a.count > b.count
      [] key = "-score, ngram" ->
            ScoreLess(b.score, a.score) \/ (ScoreEq(a.score, b.score) /\ NgramLess(a.ngram, b.ngram))
      [] key = "-score" -> ScoreLess(b.score, a.score)

RECURSIVE InsertBy(_, _, _)
\* x goes in front of the first element it must precede
InsertBy(key, sorted, x) ==
    IF sorted = << >> THEN << x >>
    ELSE IF KeyBefore(key, x, Head(sorted)) THEN << x >> \o sorted
         ELSE << Head(sorted) >> \o InsertBy(key, Tail(sorted), x)

RECURSIVE SortBy(_, _)
\* sorted(seq, key): stable, equal elements keep the order they had in seq
SortBy(key, seq) ==
    IF seq = << >> THEN << >>
    ELSE InsertBy(key, SortBy(key, SubSeq(seq, 1, Len(seq) - 1)), seq[Len(seq)])

Take(seq, n) == IF n <= 0 THEN << >> ELSE SubSeq(seq, 1, IF n < Len(seq) THEN n ELSE Len(seq))

RECURSIVE FirstMax(_, _)
\* max(it, key=count): the first of the rows with the largest count
FirstMax(best, rest) ==
    IF rest = << >> THEN best
    ELSE FirstMax(IF Head(rest).count > best.count THEN Head(rest) ELSE best, Tail(rest))

\* tuple order of the heap entries (count, order); the orders are distinct
HeapLess(a, b) == a.k < b.k \/ (a.k = b.k /\ a.order < b.order)

HeapMin(heap) == CHOOSE m \in heap : \A x \in heap : x = m \/ HeapLess(m, x)

RECURSIVE HeapScan_replace_equal(_, _, _)
\* a faulty variant: a later row replaces a row of the same count
HeapScan_replace_equal(heap, order, rest) ==
    IF rest = << >> THEN heap
    ELSE LET top == HeapMin(heap)
             e == Head(rest)
         IN  IF top.k <= e.count
             THEN HeapScan_replace_equal(
                      (heap \ {top}) \cup {[k |-> e.count, order |-> order, elem |-> e]},
                      order - 1, Tail(rest))
             ELSE HeapScan_replace_equal(heap, order, Tail(rest))

RECURSIVE HeapScan(_, _, _)
\* the loop of nlargest over the rows after the first n
HeapScan(heap, order, rest) ==
    IF rest = << >> THEN heap
    ELSE LET top == HeapMin(heap)
             e == Head(rest)
         IN  IF top.k < e.count
             THEN HeapScan((heap \ {top}) \cup {[k |-> e.count, order |-> order, elem |-> e]},
                           order - 1, Tail(rest))
             ELSE HeapScan(heap, order, Tail(rest))

RECURSIVE HeapDrain(_)
\* result.sort(reverse=True)
HeapDrain(heap) ==
    IF heap = {} THEN << >>
    ELSE LET m == HeapMin(heap) IN HeapDrain(heap \ {m}) \o << m.elem >>

nlargest(n, items) ==
    IF n = 1 THEN (IF items = << >> THEN << >> ELSE << FirstMax(Head(items), Tail(items)) >>)
    ELSE IF n >= Len(items)
         THEN Take(SortBy("count, reverse", items), n)
         ELSE IF n <= 0 THEN << >>
              ELSE LET first == {[k |-> items[i].count, order |-> 1 - i, elem |-> items[i]] :
                                    i \in 1..n}
                   IN  HeapDrain(HeapScan(first, -n, SubSeq(items, n + 1, Len(items))))

most_common(seq, n) ==
    LET top == nlargest(n, Counter(seq))
    IN  [i \in 1..Len(top) |-> << top[i].item, top[i].count >>]

(***************************************************************************)
(* Collocations.  BigramCollocationFinder.from_words counts every word and *)
(* every adjacent pair; apply_freq_filter rebuilds the pair table without  *)
(* the rare pairs and leaves the word table and N alone; score_ngrams      *)
(* scores each remaining pair and sorts by the key (-score, ngram).        *)
(*                                                                         *)
(* BigramAssocMeasures.pmi returns log2(n_ii * n_xx) - log2(n_ix * n_xi)   *)
(* in floating point.  A score is kept as the two arguments of the         *)
(* logarithms and err, the place of the rounded result among the results   *)
(* of equal exact value: the rounding is a function of the arguments that  *)
(* the C library decides, so err is chosen per pair of arguments.          *)
(***************************************************************************)
RECURSIVE from_words_scan(_, _, _)
from_words_scan(words, i, finder) ==
    IF i > Len(words) THEN finder
    ELSE LET wfd == Inc(finder.word_fd, words[i])
             bfd == IF i < Len(words)
                    THEN Inc(finder.ngram_fd, << words[i], words[i + 1] >>)
                    ELSE finder.ngram_fd
         IN  from_words_scan(words, i + 1,
                             [word_fd |-> wfd, ngram_fd |-> bfd, N |-> finder.N + 1])

from_words(words) ==
    from_words_scan(words, 1, [word_fd |-> << >>, ngram_fd |-> << >>, N |-> 0])

RECURSIVE SumCounts(_)
SumCounts(fd) == IF fd = << >> THEN 0 ELSE Head(fd).count + SumCounts(Tail(fd))

\* a faulty variant: the total is taken again from the pairs that are left
apply_freq_filter_recount(finder, min) ==
    LET left == SelectSeq(finder.ngram_fd, LAMBDA row : ~(row.count < min))
    IN  [finder EXCEPT !.ngram_fd = left, !.N = SumCounts(left)]

\* a faulty variant: a pair of exactly min occurrences is dropped
apply_freq_filter_above(finder, min) ==
    [finder EXCEPT !.ngram_fd = SelectSeq(finder.ngram_fd, LAMBDA row : ~(row.count <= min))]

apply_freq_filter(finder, min) ==
    [finder EXCEPT !.ngram_fd = SelectSeq(finder.ngram_fd, LAMBDA row : ~(row.count < min))]

\* fd[key] of a FreqDist: 0 for a missing key
Freq(fd, key) ==
    IF \E i \in 1..Len(fd) : fd[i].item = key
    THEN fd[CHOOSE i \in 1..Len(fd) : fd[i].item = key].count
    ELSE 0

pmi(n_ii, n_ix, n_xi, n_xx, err) ==
    [num |-> n_ii * n_xx, den |-> n_ix * n_xi, err |-> err[<< n_ii * n_xx, n_ix * n_xi >>]]

\* the pairs of logarithm arguments the scoring of finder meets
PmiArgs(finder) ==
    {<< finder.ngram_fd[i].count * finder.N,
        Freq(finder.word_fd, finder.ngram_fd[i].item[1])
          * Freq(finder.word_fd, finder.ngram_fd[i].item[2]) >> :
       i \in 1..Len(finder.ngram_fd)}

\* the rounding errors a run can meet: two results of different exact value
\* are ordered as their exact values, so err matters (and is varied) only
\* where two different pairs of arguments have the same quotient
Roundings(finder, maxErr) ==
    LET A == PmiArgs(finder)
        Twin(p) == \E q \in A : q # p /\ p[1] * q[2] = q[1] * p[2]
    IN  {e \in [A -> 0..maxErr] : \A p \in A : ~Twin(p) => e[p] = 0}

score_ngram(finder, w1, w2, err) ==
    pmi(Freq(finder.ngram_fd, << w1, w2 >>), Freq(finder.word_fd, w1),
        Freq(finder.word_fd, w2), finder.N, err)

\* a faulty variant: the sort key is the score alone, so pairs of equal score
\* stay in the order of the pair table
score_ngrams_by_score(finder, err) ==
    LET fd == finder.ngram_fd
        each == [i \in 1..Len(fd) |->
                   [ngram |-> fd[i].item,
                    score |-> score_ngram(finder, fd[i].item[1], fd[i].item[2], err)]]
    IN  SortBy("-score", each)

score_ngrams(finder, err) ==
    LET fd == finder.ngram_fd
        each == [i \in 1..Len(fd) |->
                   [ngram |-> fd[i].item,
                    score |-> score_ngram(finder, fd[i].item[1], fd[i].item[2], err)]]
    IN  SortBy("-score, ngram", each)

(***************************************************************************)
(* Regex utilities.  A matcher gives, for a start position, the position   *)
(* after the match the backtracking search finds first, or 0.  Positions   *)
(* are 1-based; spans are the 0-based half-open spans of m.span().         *)
(***************************************************************************)
At(text, i) == IF i >= 1 /\ i <= Len(text) THEN text[i] ELSE 0

\* \b in front of position i
WordBoundary(text, i) == IsWord(At(text, i - 1)) # IsWord(At(text, i))

Digits(text, i, n) == \A j \in i..(i + n - 1) : IsDigit(At(text, j))

\* DATE_ISO
MatchDateIso(text, i) ==
    IF /\ WordBoundary(text, i)
       /\ Digits(text, i, 4) /\ At(text, i + 4) = HYPHEN
       /\ Digits(text, i + 5, 2) /\ At(text, i + 7) = HYPHEN
       /\ Digits(text, i + 8, 2)
       /\ WordBoundary(text, i + 10)
    THEN i + 10 ELSE 0

\* the rest of DATE_SL once the day took d1 digits and the month d2
DateSlTail(text, i, d1, d2) ==
    IF /\ Digits(text, i, d1) /\ At(text, i + d1) = SLASH
       /\ Digits(text, i + d1 + 1, d2) /\ At(text, i + d1 + 1 + d2) = SLASH
       /\ Digits(text, i + d1 + d2 + 2, 4)
       /\ WordBoundary(text, i + d1 + d2 + 6)
    THEN i + d1 + d2 + 6 ELSE 0

\* DATE_SL: \d{1,2} is greedy, two digits are tried before one
MatchDateSl(text, i) ==
    IF ~WordBoundary(text, i) THEN 0
    ELSE IF DateSlTail(text, i, 2, 2) # 0 THEN DateSlTail(text, i, 2, 2)
    ELSE IF DateSlTail(text, i, 2, 1) # 0 THEN DateSlTail(text, i, 2, 1)
    ELSE IF DateSlTail(text, i, 1, 2) # 0 THEN DateSlTail(text, i, 1, 2)
    ELSE DateSlTail(text, i, 1, 1)

RECURSIVE NumFrac(_, _, _)
\* (?:\.\d+)?\b with the dot at j: the fraction ends at k, or gives digits back
NumFrac(text, j, k) ==
    IF k <= j + 1 THEN 0
    ELSE IF WordBoundary(text, k) THEN k
         ELSE NumFrac(text, j, k - 1)

RECURSIVE NumInt(_, _, _)
\* \d+ ends at j: with the fraction, else without it, else one digit fewer
NumInt(text, i, j) ==
    IF j <= i THEN 0
    ELSE LET f == IF At(text, j) = DOT
                  THEN NumFrac(text, j, RunEnd(DIGITS, text, j + 1)) ELSE 0
         IN  IF f # 0 THEN f
             ELSE IF WordBoundary(text, j) THEN j
                  ELSE NumInt(text, i, j - 1)

\* NUM_RE
MatchNum(text, i) ==
    IF WordBoundary(text, i) THEN NumInt(text, i, RunEnd(DIGITS, text, i)) ELSE 0

\* [A-Za-z0-9._%+-]
EMAIL_LOCAL == ASCII_LETTERS \cup (48..57) \cup {46, 95, 37, 43, 45}

\* [A-Za-z0-9.-]
EMAIL_DOMAIN == ASCII_LETTERS \cup (48..57) \cup {46, 45}

RECURSIVE EmailDomain(_, _, _)
\* [A-Za-z0-9.-]+ ends at m, where \.[A-Za-z]{2,} must follow
EmailDomain(text, j, m) ==
    IF m <= j + 1 THEN 0
    ELSE LET e == RunEnd(ASCII_LETTERS, text, m + 1)
         IN  IF At(text, m) = DOT /\ e - (m + 1) >= 2 THEN e
             ELSE EmailDomain(text, j, m - 1)

RECURSIVE EmailLocal(_, _, _)
\* [A-Za-z0-9._%+-]+ ends at j, where the @ must follow
EmailLocal(text, i, j) ==
    IF j <= i THEN 0
    ELSE LET d == IF At(text, j) = AT
                  THEN EmailDomain(text, j, RunEnd(EMAIL_DOMAIN, text, j + 1)) ELSE 0
         IN  IF d # 0 THEN d ELSE EmailLocal(text, i, j - 1)

\* EMAIL_RE
MatchEmail(text, i) == EmailLocal(text, i, RunEnd(EMAIL_LOCAL, text, i))

\* re.match of a pattern of lines 100-103 at position i
Match(pattern, text, i) ==
    CASE pattern = "EMAIL_RE" -> MatchEmail(text, i)
      [] pattern = "DATE_ISO" -> MatchDateIso(text, i)
      [] pattern = "DATE_SL" -> MatchDateSl(text, i)
      [] pattern = "NUM_RE" -> MatchNum(text, i)

RECURSIVE FindIterFrom(_, _, _)
\* the search goes on from i: the leftmost start that matches, then on from
\* the end of that match
FindIterFrom(pattern, text, i) ==
    IF \A j \in i..Len(text) : Match(pattern, text, j) = 0 THEN << >>
    ELSE LET s == CHOOSE j \in i..Len(text) :
                     Match(pattern, text, j) # 0
                       /\ \A k \in i..(j - 1) : Match(pattern, text, k) = 0
             e == Match(pattern, text, s)
         IN  << << s - 1, e - 1 >> >> \o FindIterFrom(pattern, text, e)

\* _find_spans: the spans of re.finditer, left to right, not overlapping
find_spans(pattern, text) == FindIterFrom(pattern, text, 1)

Group(text, span) == SubSeq(text, span[1] + 1, span[2])

\* re.findall of a pattern without groups
findall(pattern, text) ==
    LET spans == find_spans(pattern, text)
    IN  [i \in 1..Len(spans) |-> Group(text, spans[i])]

extract_emails(text) == findall("EMAIL_RE", text)

extract_dates(text) == findall("DATE_ISO", text) \o findall("DATE_SL", text)

\* a faulty variant: a number that starts where a date starts is kept
extract_numbers_excluding_dates_open(text) ==
    LET date_spans == find_spans("DATE_ISO", text) \o find_spans("DATE_SL", text)
        kept == SelectSeq(find_spans("NUM_RE", text),
                          LAMBDA m : ~(\E d \in 1..Len(date_spans) :
                                          date_spans[d][1] < m[1] /\ m[1] < date_spans[d][2]))
    IN  [i \in 1..Len(kept) |-> Group(text, kept[i])]

extract_numbers_excluding_dates(text) ==
    LET date_spans == find_spans("DATE_ISO", text) \o find_spans("DATE_SL", text)
        kept == SelectSeq(find_spans("NUM_RE", text),
                          LAMBDA m : ~(\E d \in 1..Len(date_spans) :
                                          date_spans[d][1] <= m[1] /\ m[1] < date_spans[d][2]))
    IN  [i \in 1..Len(kept) |-> Group(text, kept[i])]

(***************************************************************************)
(* main().  args is the parsed command line: an option that was not given  *)
(* is None, and Python takes None and the empty string alike for false.    *)
(* fs is the file args.file names.                                         *)
(***************************************************************************)
None == [given |-> FALSE, val |-> << >>]

Some(v) == [given |-> TRUE, val |-> v]

Truthy(opt) == opt.given /\ opt.val # << >>

\* the built-in sample corpus of lines 159-163
SAMPLE_TEXT ==
    << 1578, 1604, 1578, 1586, 1605, 32, 1575, 1604, 1588, 1585, 1603, 1577, 32, 1576,
       1581, 1605, 1575, 1610, 1577, 32, 1576, 1610, 1575, 1606, 1575, 1578, 32, 1575,
       1604, 1593, 1605, 1604, 1575, 1569, 32, 1608, 1601, 1602, 32, 1575, 1604, 1587,
       1610, 1575, 1587, 1575, 1578, 32, 1608, 1575, 1604, 1604, 1608, 1575, 1574, 1581,
       32, 1575, 1604, 1605, 1593, 1605, 1608, 1604, 32, 1576, 1607, 1575, 46, 32,
       1610, 1580, 1576, 32, 1593, 1604, 1609, 32, 1575, 1604, 1580, 1607, 1577, 32,
       1575, 1604, 1605, 1587, 1572, 1608, 1604, 1577, 32, 1578, 1591, 1576, 1610, 1602,
       32, 1590, 1608, 1575, 1576, 1591, 32, 1571, 1605, 1606, 32, 1575, 1604, 1605,
       1593, 1604, 1608, 1605, 1575, 1578, 32, 1608, 1575, 1604, 1575, 1604, 1578, 1586,
       1575, 1605, 32, 1576, 1571, 1601, 1590, 1604, 32, 1575, 1604, 1605, 1605, 1575,
       1585, 1587, 1575, 1578, 46, 32, 1578, 1608, 1575, 1589, 1604, 32, 1605, 1593,
       1606, 1575, 32, 1593, 1604, 1609, 32, 112, 114, 105, 118, 97, 99, 121,
       64, 101, 120, 97, 109, 112, 108, 101, 46, 99, 111, 109, 32, 1576,
       1578, 1575, 1585, 1610, 1582, 32, 50, 48, 50, 53, 45, 48, 57, 45,
       48, 57, 46, 32, 1593, 1583, 1583, 32, 1575, 1604, 1605, 1608, 1592, 1601,
       1610, 1606, 32, 49, 50, 48, 46 >>

DefaultTopK == 20
DefaultMinFreq == 2
DefaultMinLen == 2

Max(a, b) == IF a >= b THEN a ELSE b

ReadInput ==
    /\ pc = "read"
    /\ IF Truthy(args.file)
       THEN IF fs.readable
            THEN raw' = fs.data /\ pc' = "normalize"
            ELSE raw' = raw /\ pc' = "fatal"
       ELSE /\ raw' = IF Truthy(args.text) THEN args.text.val ELSE SAMPLE_TEXT
            /\ pc' = "normalize"
    /\ UNCHANGED << args, fs, convert_ta, norm, tokens, stop_set, no_stop, stems,
                    freq, min_freq, scored, emails, dates, numbers >>

Normalize ==
    /\ pc = "normalize"
    /\ convert_ta' = ~args.keep_ta_marbuta
    /\ norm' = normalize_arabic(raw, convert_ta')
    /\ pc' = "tokenize"
    /\ UNCHANGED << args, fs, raw, tokens, stop_set, no_stop, stems, freq, min_freq,
                    scored, emails, dates, numbers >>

Tokenize ==
    /\ pc = "tokenize"
    /\ tokens' = tokenize_ar(norm)
    /\ pc' = "stopwords"
    /\ UNCHANGED << args, fs, raw, convert_ta, norm, stop_set, no_stop, stems, freq,
                    min_freq, scored, emails, dates, numbers >>

BuildStopwords ==
    /\ pc = "stopwords"
    /\ stop_set' = build_stopwords(convert_ta, args.extra_stop)
    /\ pc' = "filter"
    /\ UNCHANGED << args, fs, raw, convert_ta, norm, tokens, no_stop, stems, freq,
                    min_freq, scored, emails, dates, numbers >>

RemoveStopwords ==
    /\ pc = "filter"
    /\ no_stop' = remove_stopwords(tokens, stop_set, args.min_len)
    /\ pc' = "stem"
    /\ UNCHANGED << args, fs, raw, convert_ta, norm, tokens, stop_set, stems, freq,
                    min_freq, scored, emails, dates, numbers >>

StemTokens ==
    /\ pc = "stem"
    /\ stems' = stem_tokens(no_stop, make_stemmer(args.stem))
    /\ pc' = "freq"
    /\ UNCHANGED << args, fs, raw, convert_ta, norm, tokens, stop_set, no_stop, freq,
                    min_freq, scored, emails, dates, numbers >>

Frequencies ==
    /\ pc = "freq"
    /\ freq' = most_common(no_stop, args.topk)
    /\ pc' = "collocations"
    /\ UNCHANGED << args, fs, raw, convert_ta, norm, tokens, stop_set, no_stop, stems,
                    min_freq, scored, emails, dates, numbers >>

MaxErr == 1

\* lines 184-189
Finder(words, min) ==
    IF min > 1 THEN apply_freq_filter(from_words(words), min) ELSE from_words(words)

Collocations ==
    /\ pc = "collocations"
    /\ min_freq' = Max(1, args.min_freq)
    /\ \E err \in Roundings(Finder(no_stop, min_freq'), MaxErr) :
          scored' = score_ngrams(Finder(no_stop, min_freq'), err)
    /\ pc' = "regex"
    /\ UNCHANGED << args, fs, raw, convert_ta, norm, tokens, stop_set, no_stop, stems,
                    freq, emails, dates, numbers >>

RegexExtras ==
    /\ pc = "regex"
    /\ emails' = extract_emails(raw)
    /\ dates' = extract_dates(raw)
    /\ numbers' = extract_numbers_excluding_dates(raw)
    /\ pc' = "done"
    /\ UNCHANGED << args, fs, raw, convert_ta, norm, tokens, stop_set, no_stop, stems,
                    freq, min_freq, scored >>

Next ==
    \/ ReadInput
    \/ Normalize
    \/ Tokenize
    \/ BuildStopwords
    \/ RemoveStopwords
    \/ StemTokens
    \/ Frequencies
    \/ Collocations
    \/ RegexExtras

(***************************************************************************)
(* The command lines of the runs considered.  Every specification runs the *)
(* whole of main(); they differ in the family of inputs.                   *)
(***************************************************************************)
SeqsUpTo(S, n) == UNION {[1..k -> S] : k \in 0..n}

RECURSIVE Join(_, _)
Join(parts, sep) ==
    IF parts = << >> THEN << >>
    ELSE IF Len(parts) = 1 THEN parts[1]
         ELSE parts[1] \o sep \o Join(Tail(parts), sep)

DefaultArgs ==
    [text |-> None, file |-> None, topk |-> DefaultTopK, min_freq |-> DefaultMinFreq,
     keep_ta_marbuta |-> FALSE, extra_stop |-> << >>, min_len |-> DefaultMinLen,
     stem |-> "isri"]

NoFile == [readable |-> FALSE, data |-> << >>]

Start(A, F) ==
    /\ pc = "read"
    /\ args \in A
    /\ fs \in F
    /\ raw = << >>
    /\ convert_ta = TRUE
    /\ norm = << >>
    /\ tokens = << >>
    /\ stop_set = {}
    /\ no_stop = << >>
    /\ stems = << >>
    /\ freq = << >>
    /\ min_freq = 0
    /\ scored = << >>
    /\ emails = << >>
    /\ dates = << >>
    /\ numbers = << >>

\* bayt, ilm, kutub (content words), an e-mail address, a date, a number
W_BAYT == << 1576, 1610, 1578 >>
W_ILM == << 1593, 1604, 1605 >>
W_KUTUB == << 1603, 1578, 1576 >>
T_EMAIL == << 97, 64, 98, 46, 99, 111 >>
T_ISO == << 50, 48, 50, 53, 45, 48, 57, 45, 48, 57 >>
T_120 == << 49, 50, 48 >>

MaxMainPieces == 3

MainTexts ==
    {Join(p, << >>) :
       p \in SeqsUpTo({W_BAYT, << SPACE >>, T_EMAIL, T_ISO, T_120}, MaxMainPieces)}

MainArgs ==
    {[DefaultArgs EXCEPT !.text = t, !.file = f, !.stem = s] :
       t \in {None} \cup {Some(x) : x \in MainTexts},
       f \in {None, Some(<< >>), Some(<< 102 >>)},
       s \in {"isri", "snowball", "none"}}

MainFiles ==
    {NoFile, [readable |-> TRUE, data |-> << >>],
     [readable |-> TRUE, data |-> W_BAYT \o << SPACE >> \o T_120]}

Init == Start(MainArgs, MainFiles)

Spec == Init /\ [][Next]_vars

(***************************************************************************)
(* Runs over Arabic sentences, with --min_freq or --topk varied: up to     *)
(* MaxWords content words separated by spaces, and up to MaxMixedWords     *)
(* words among which the stopword W_FI may stand.                          *)
(***************************************************************************)
W_FI == << 1601, 1610 >>

MaxWords == 5
MaxMixedWords == 3
MaxMinFreq == 3
MaxTopK == 4

CollTexts ==
    {Join(ws, << SPACE >>) :
       ws \in SeqsUpTo({W_BAYT, W_ILM, W_KUTUB}, MaxWords)
                \cup SeqsUpTo({W_BAYT, W_ILM, W_KUTUB, W_FI}, MaxMixedWords)}

CollArgs ==
    {[DefaultArgs EXCEPT !.text = Some(t), !.min_freq = m] :
       t \in CollTexts, m \in (-1)..MaxMinFreq}
    \cup
    {[DefaultArgs EXCEPT !.text = Some(t), !.topk = k] :
       t \in CollTexts, k \in (-1)..MaxTopK}

InitColl == Start(CollArgs, {NoFile})

SpecColl == InitColl /\ [][Next]_vars

(***************************************************************************)
(* Runs that exercise the stopword set: words that are stopwords only      *)
(* after normalization, a word with ta marbuta, a one-letter word, and     *)
(* --extra_stop values with stray commas and blanks.                       *)
(***************************************************************************)
W_ALA == << 1593, 1604, 1609 >>
W_SANA == << 1587, 1606, 1577 >>
W_WA == << 1608 >>

MaxStopWords == 3
MaxMinLen == 3

StopTexts ==
    {Join(ws, << SPACE >>) : ws \in SeqsUpTo({W_ALA, W_SANA, W_WA, W_BAYT}, MaxStopWords)}

ExtraStops ==
    { << >>,
      << COMMA >>,
      << SPACE, COMMA, COMMA, SPACE >>,
      W_SANA,
      << SPACE >> \o W_SANA \o << SPACE, COMMA >> \o W_BAYT \o << COMMA >> }

StopArgs ==
    {[DefaultArgs EXCEPT !.text = Some(t), !.extra_stop = x, !.keep_ta_marbuta = k,
                         !.min_len = n] :
       t \in StopTexts, x \in ExtraStops, k \in BOOLEAN, n \in (-1)..MaxMinLen}

InitStop == Start(StopArgs, {NoFile})

SpecStop == InitStop /\ [][Next]_vars

(***************************************************************************)
(* Runs over every short string of the characters normalization treats.    *)
(***************************************************************************)
MaxNormLen == 3

NormAlphabet ==
    {1611, TATWEEL, 1571, ALEF, ALEF_MAKSURA, YA, WAW_HAMZA, YA_HAMZA, TA_MARBUTA, 97}

NormArgs ==
    {[DefaultArgs EXCEPT !.text = Some(t), !.keep_ta_marbuta = k] :
       t \in SeqsUpTo(NormAlphabet, MaxNormLen), k \in BOOLEAN}

InitNorm == Start(NormArgs, {NoFile})

SpecNorm == InitNorm /\ [][Next]_vars

(***************************************************************************)
(* Runs over texts of dates and numbers.                                   *)
(***************************************************************************)
T_SLASH == << 49, 47, 50, 47, 50, 48, 50, 53 >>
T_3_5 == << 51, 46, 53 >>
T_AND == << 32, 97, 110, 100, 32 >>

MaxNumPieces == 3

NumTexts ==
    {Join(p, << >>) :
       p \in SeqsUpTo({T_ISO, T_SLASH, T_120, T_3_5, T_AND, << DOT >>, << 49 >>,
                       << SLASH >>, << HYPHEN >>}, MaxNumPieces)}

NumArgs == {[DefaultArgs EXCEPT !.text = Some(t)] : t \in NumTexts}

InitNum == Start(NumArgs, {NoFile})

SpecNum == InitNum /\ [][Next]_vars

(***************************************************************************)
(* Properties.  The counting and ordering notions they use are defined     *)
(* here from the sequences themselves, not through the tables above.       *)
(***************************************************************************)
AfterNormalize == pc \in {"tokenize", "stopwords", "filter", "stem", "freq",
                          "collocations", "regex", "done"}

AfterFilter == pc \in {"stem", "freq", "collocations", "regex", "done"}

AfterFrequencies == pc \in {"collocations", "regex", "done"}

AfterCollocations == pc \in {"regex", "done"}

Count(seq, w) == Cardinality({i \in 1..Len(seq) : seq[i] = w})

PairAt(seq, i) == << seq[i], seq[i + 1] >>

PairCount(seq, g) == Cardinality({i \in 1..(Len(seq) - 1) : PairAt(seq, i) = g})

FirstIndex(seq, w) == CHOOSE i \in 1..Len(seq) : seq[i] = w /\ \A j \in 1..(i - 1) : seq[j] # w

FirstPair(seq, g) ==
    CHOOSE i \in 1..(Len(seq) - 1) :
       PairAt(seq, i) = g /\ \A j \in 1..(i - 1) : PairAt(seq, j) # g

\* a < b for strings: at the first place they differ, a has ended or has the
\* smaller code point
StrBefore(a, b) ==
    \E k \in 1..Len(b) :
       /\ \A j \in 1..(k - 1) : j <= Len(a) /\ a[j] = b[j]
       /\ k = Len(a) + 1 \/ (k <= Len(a) /\ a[k] < b[k])

PairBefore(g, h) == StrBefore(g[1], h[1]) \/ (g[1] = h[1] /\ StrBefore(g[2], h[2]))

SameScore(s, t) == s.num * t.den = t.num * s.den /\ s.err = t.err

LowerScore(s, t) ==
    s.num * t.den < t.num * s.den \/ (s.num * t.den = t.num * s.den /\ s.err < t.err)

\* C1 as stated: the score of every scored bigram (w1, w2) is log2 of
\* (count(w1,w2) / (L-1)) / ((count(w1) / L) * (count(w2) / L)), the joint
\* probability taken over the L-1 adjacent pairs of the filtered sequence.
C1_PmiOverPairTotal ==
    AfterCollocations =>
       \A i \in 1..Len(scored) :
          LET g == scored[i].ngram
              L == Len(no_stop)
          IN  scored[i].score.num * (L - 1) * Count(no_stop, g[1]) * Count(no_stop, g[2])
                = scored[i].score.den * PairCount(no_stop, g) * L * L

\* C1 as amended: the score of every scored bigram (w1, w2) is log2 of
\* (count(w1,w2) / L) / ((count(w1) / L) * (count(w2) / L)): one total, the
\* number L of filtered tokens, serves the joint and the single probabilities,
\* and counts and total are those of the whole sequence whatever min_freq is.
C1_PmiOverTokenTotal ==
    AfterCollocations =>
       \A i \in 1..Len(scored) :
          LET g == scored[i].ngram
              L == Len(no_stop)
          IN  scored[i].score.num * Count(no_stop, g[1]) * Count(no_stop, g[2]) * L
                = scored[i].score.den * PairCount(no_stop, g) * L * L

\* the run on "bayt ilm bayt ilm" with min_freq 1: (bayt, ilm) scores log2(2)
C1_Witness ==
    /\ pc = "done"
    /\ no_stop = << W_BAYT, W_ILM, W_BAYT, W_ILM >>
    /\ args.min_freq = 1
    /\ \E i \in 1..Len(scored) :
          /\ scored[i].ngram = << W_BAYT, W_ILM >>
          /\ scored[i].score.num = 2 * scored[i].score.den

\* the run on "bayt ilm bayt ilm" with the default min_freq 2: the pair that
\* is filtered out still counts in the totals
C1_WitnessFiltered ==
    /\ pc = "done"
    /\ no_stop = << W_BAYT, W_ILM, W_BAYT, W_ILM >>
    /\ min_freq = 2
    /\ Len(scored) = 1
    /\ scored[1].score.num = 2 * scored[1].score.den

\* C2 as stated: the scored list is in descending order of score, and two
\* bigrams of exactly equal score are in the order of their first occurrence
\* in the filtered sequence.
C2_TiesByFirstEncounter ==
    AfterCollocations =>
       \A i, j \in 1..Len(scored) :
          i < j =>
             /\ ~LowerScore(scored[i].score, scored[j].score)
             /\ SameScore(scored[i].score, scored[j].score)
                  => FirstPair(no_stop, scored[i].ngram) < FirstPair(no_stop, scored[j].ngram)

\* C2 as amended: the scored list is in descending order of score, and two
\* bigrams of exactly equal score are in ascending order of the pair
\* (w1, w2), compared as tuples of strings by code point.
C2_TiesByPairOrder ==
    AfterCollocations =>
       \A i, j \in 1..Len(scored) :
          i < j =>
             /\ ~LowerScore(scored[i].score, scored[j].score)
             /\ SameScore(scored[i].score, scored[j].score)
                  => PairBefore(scored[i].ngram, scored[j].ngram)

\* two neighbours of equal score, the later-met pair in front
C2_Witness ==
    /\ pc = "done"
    /\ \E i \in 1..(Len(scored) - 1) :
          /\ SameScore(scored[i].score, scored[i + 1].score)
          /\ FirstPair(no_stop, scored[i].ngram) > FirstPair(no_stop, scored[i + 1].ngram)

\* C3: the scored bigrams are exactly the adjacent pairs of the filtered
\* sequence that occur at least max(1, min_freq) times, each scored once;
\* fewer than two tokens give none.
C3_ScoredAreFrequentPairs ==
    AfterCollocations =>
       LET L == Len(no_stop)
           least == IF args.min_freq > 1 THEN args.min_freq ELSE 1
       IN  /\ {scored[i].ngram : i \in 1..Len(scored)}
                = {PairAt(no_stop, i) :
                     i \in {j \in 1..(L - 1) : PairCount(no_stop, PairAt(no_stop, j)) >= least}}
           /\ \A i, j \in 1..Len(scored) : scored[i].ngram = scored[j].ngram => i = j
           /\ L < 2 => scored = << >>

\* min_freq 2: a pair met once is left out although both its words occur
\* twice, beside a pair that is scored
C3_Witness ==
    /\ pc = "done"
    /\ args.min_freq = 2
    /\ scored # << >>
    /\ \E i \in 1..(Len(no_stop) - 1) :
          /\ PairCount(no_stop, PairAt(no_stop, i)) = 1
          /\ Count(no_stop, no_stop[i]) >= 2 /\ Count(no_stop, no_stop[i + 1]) >= 2
          /\ \A k \in 1..Len(scored) : scored[k].ngram # PairAt(no_stop, i)

\* a negative min_freq: every adjacent pair is scored
C3_WitnessNegative ==
    /\ pc = "done"
    /\ args.min_freq < 0
    /\ Len(no_stop) >= 3
    /\ \E k \in 1..Len(scored) : PairCount(no_stop, scored[k].ngram) = 1

\* C4: remove_stopwords keeps exactly the occurrences of tokens that are not
\* in the stopword set and are at least min_len long, in their order and
\* with their repetitions.
C4_FilterKeepsExactly ==
    AfterFilter =>
       LET keep == {i \in 1..Len(tokens) :
                      tokens[i] \notin stop_set /\ Len(tokens[i]) >= args.min_len}
       IN  /\ Len(no_stop) = Cardinality(keep)
           /\ \A i \in keep : no_stop[Cardinality({j \in keep : j <= i})] = tokens[i]
           /\ args.min_len <= 0 =>
                 Len(no_stop) = Cardinality({i \in 1..Len(tokens) : tokens[i] \notin stop_set})

\* min_len <= 0: a one-letter token is kept twice around a removed stopword
C4_Witness ==
    /\ pc = "done"
    /\ args.min_len <= 0
    /\ Len(tokens) = 3
    /\ tokens[2] \in stop_set
    /\ no_stop = << W_WA, W_WA >>

\* the part of text between two neighbouring cuts (commas, or the ends)
CommaPieces(text) ==
    LET cuts == {0, Len(text) + 1} \cup {i \in 1..Len(text) : text[i] = COMMA}
    IN  {SubSeq(text, a + 1, b - 1) :
           << a, b >> \in {c \in cuts \X cuts :
                             c[1] < c[2] /\ \A m \in cuts : ~(c[1] < m /\ m < c[2])}}

Blank(x) == \A i \in 1..Len(x) : IsSpace(x[i])

Trim(x) ==
    IF Blank(x) THEN << >>
    ELSE LET ink == {i \in 1..Len(x) : ~IsSpace(x[i])}
         IN  SubSeq(x, CHOOSE i \in ink : \A j \in ink : i <= j,
                       CHOOSE i \in ink : \A j \in ink : j <= i)

\* C5: the text and the stopword set are normalized under the one policy of
\* the run, so no surviving token is the normal form of a lexicon entry or
\* of a non-blank piece of --extra_stop; blank pieces add nothing to the set.
C5_OnePolicy ==
    pc = "done" =>
       LET p == ~args.keep_ta_marbuta
           named == {x \in CommaPieces(args.extra_stop) : ~Blank(x)}
       IN  /\ norm = normalize_arabic(raw, p)
           /\ \A i \in 1..Len(no_stop) :
                 \A x \in AR_STOPWORDS_RAW \cup named :
                    /\ no_stop[i] # normalize_arabic(x, p)
                    /\ no_stop[i] # normalize_arabic(Trim(x), p)
           /\ stop_set = {normalize_arabic(x, p) : x \in AR_STOPWORDS_RAW}
                           \cup {normalize_arabic(Trim(x), p) : x \in named}

\* ta marbuta kept: the extra stopword, given between blanks and stray
\* commas, removes its occurrence in the text
C5_Witness ==
    /\ pc = "done"
    /\ args.keep_ta_marbuta
    /\ Cardinality(CommaPieces(args.extra_stop)) = 3
    /\ \E i \in 1..Len(tokens) : tokens[i] = W_SANA
    /\ \A i \in 1..Len(no_stop) : no_stop[i] # W_SANA
    /\ no_stop # << >>

\* C6: the Top-K list is the first max(k, 0) of the distinct tokens ranked by
\* count, highest first, tokens of equal count in order of first appearance.
C6_TopKIsStablePrefix ==
    AfterFrequencies =>
       LET D == Range(no_stop)
           Ahead(v, w) ==
              \/ Count(no_stop, v) > Count(no_stop, w)
              \/ /\ Count(no_stop, v) = Count(no_stop, w)
                 /\ FirstIndex(no_stop, v) < FirstIndex(no_stop, w)
           rank(w) == 1 + Cardinality({v \in D : Ahead(v, w)})
           k == IF args.topk > 0 THEN args.topk ELSE 0
       IN  /\ Len(freq) = (IF k < Cardinality(D) THEN k ELSE Cardinality(D))
           /\ \A w \in D : rank(w) <= Len(freq) => freq[rank(w)] = << w, Count(no_stop, w) >>
           /\ \A w \in D : \A i \in 1..Len(freq) :
                 rank(w) > Len(freq) => freq[i][2] >= Count(no_stop, w)

\* k = 2 of three distinct tokens: the heap is used, and the cut falls
\* between two tokens of equal count
C6_Witness ==
    /\ pc = "done"
    /\ args.topk = 2
    /\ Cardinality(Range(no_stop)) = 3
    /\ Len(freq) = 2
    /\ \E w \in Range(no_stop) :
          /\ Count(no_stop, w) = freq[2][2]
          /\ w # freq[1][1] /\ w # freq[2][1]
          /\ StrBefore(w, freq[2][1])

\* C7: normalizing a normalized text changes nothing, under either policy.
C7_NormalizeIdempotent ==
    AfterNormalize =>
       /\ normalize_arabic(norm, convert_ta) = norm
       /\ \A p \in BOOLEAN :
             normalize_arabic(normalize_arabic(raw, p), p) = normalize_arabic(raw, p)

\* a text whose hamza-on-ya and ta marbuta were rewritten
C7_Witness ==
    /\ pc = "done"
    /\ convert_ta
    /\ \E i \in 1..Len(raw) : raw[i] = YA_HAMZA
    /\ \E i \in 1..Len(raw) : raw[i] = TA_MARBUTA
    /\ Len(norm) = Len(raw)
    /\ \A i \in 1..Len(norm) : norm[i] \in {YA, HA}

\* C8: the sample corpus is the raw text only when neither --text nor --file
\* is given; a given --text (without --file) is the raw text as it is, and
\* the empty --text gives empty token, Top-K, bigram, e-mail, date and
\* number lists.
C8_TextGivenIsRaw ==
    pc \notin {"read", "fatal"} =>
       /\ raw = SAMPLE_TEXT => ~args.text.given /\ ~args.file.given
       /\ args.text.given /\ ~args.file.given => raw = args.text.val
       /\ pc = "done" /\ args.text.given /\ ~args.file.given /\ args.text.val = << >>
            => /\ tokens = << >> /\ freq = << >> /\ scored = << >>
               /\ emails = << >> /\ dates = << >> /\ numbers = << >>

\* the number matches of the text that start inside no date match
NumbersStartingOutsideDates(text) ==
    LET N == find_spans("NUM_RE", text)
        D == Range(find_spans("DATE_ISO", text)) \cup Range(find_spans("DATE_SL", text))
        keep == {i \in 1..Len(N) : \A d \in D : N[i][1] < d[1] \/ N[i][1] >= d[2]}
    IN  [n \in 1..Cardinality(keep) |->
           Group(text, N[CHOOSE i \in keep : Cardinality({j \in keep : j <= i}) = n])]

\* C9: extract_numbers_excluding_dates returns, in scan order, the number
\* matches whose start lies in no ISO or slash date match; "2025-09-09 and
\* 120" gives the date and the one number 120.
C9_NumbersStartOutsideDates ==
    pc = "done" =>
       /\ numbers = NumbersStartingOutsideDates(raw)
       /\ raw = T_ISO \o T_AND \o T_120 => numbers = << T_120 >> /\ dates = << T_ISO >>

C9_Witness ==
    /\ pc = "done"
    /\ raw = T_ISO \o T_AND \o T_120
    /\ numbers = << T_120 >>

\* the number matches of the text that share no character with a date match
NumbersClearOfDates(text) ==
    LET N == find_spans("NUM_RE", text)
        D == Range(find_spans("DATE_ISO", text)) \cup Range(find_spans("DATE_SL", text))
        keep == {i \in 1..Len(N) : \A d \in D : N[i][2] <= d[1] \/ N[i][1] >= d[2]}
    IN  [n \in 1..Cardinality(keep) |->
           Group(text, N[CHOOSE i \in keep : Cardinality({j \in keep : j <= i}) = n])]

\* C10: no returned number comes from a number match that shares a character
\* with an ISO or slash date match of the text.
C10_NumbersClearOfDates ==
    pc = "done" => numbers = NumbersClearOfDates(raw)

====
